---- MODULE Spec2Model ----
(***************************************************************************)
(* WorldManager (src/src/core.py): the middle layer that adds and removes  *)
(* World descriptions to and from the physics and graphics agents.          *)
(*                                                                         *)
(* Every action is one public method of WorldManager, executed from its    *)
(* first statement to its return (or to the statement that raises).  The   *)
(* calls a method issues to the backends are recorded, in order, in the    *)
(* log of the last operation.  SpecInterleaved alone runs                  *)
(* removeWorldFromPhysic one backend call at a time, on two threads.       *)
(***************************************************************************)
EXTENDS Integers, Sequences, FiniteSets, TLC

VARIABLES
    clock,      \* self.clock is not None
    phy,        \* self.phy is not None (then ms, xcd and the "ocb" connector exist)
    graph,      \* self.graph / self.graph_scn is not None
    markers,    \* self.markers (the marker-position agent) exists
    running,    \* the agents whose task has been started and not stopped
    wired,      \* the port connections made, each as <<port, port>>
    comps,      \* phy.s.getComponents()
    bodies,     \* ms.getBodyNames()
    mats,       \* ms.getContactMaterials()
    ocb,        \* bodies registered on the OConnectorBodyStateList "ocb"
    gnodes,     \* node names of the graphical scene
    gmarkers,   \* graph_scn.MarkersInterface.getMarkerLabels()
    wmat,       \* per World object: scene.physical_scene.contact_materials
    wmarkers,   \* per World object: scene.graphical_scene.markers (names)
    last,       \* the last operation: name, World, exception, state before it, calls
    rt,         \* an operation directly followed by the operation that undoes it
    twice,      \* the last operation repeats the call made just before it
    threads     \* removeWorldFromPhysic calls in progress on caller threads

vars == <<clock, phy, graph, markers, running, wired,
          comps, bodies, mats, ocb, gnodes, gmarkers,
          wmat, wmarkers, last, rt, twice, threads>>

----------------------------------------------------------------------------
(* Bounds of the model *)

\* longest contact-material list a World is built with
MaxMatLen == 2

\* longest marker list a World is allowed to grow to
MaxMarkers == 3

\* longest explicit name list passed to addFreeMarkers / addMarkers
MaxNames == 2

\* latest deletion of one removal at which the backend is made to fail
MaxFailAt == 8

----------------------------------------------------------------------------
(* The World objects the caller builds (spec.md section 6 schema) *)

Worlds == {"w1", "w2", "w3"}

\* the World object createMarkerWorld returns: no physical node, no
\* contact material, the markers it is asked for
MarkerWorlds == {"mw"}

AllWorlds == Worlds \cup MarkerWorlds

Mats == {"m1", "m2", "m3"}

\* physical_scene.contact_materials, as the World is built
ContactMaterials(w) ==
    CASE w = "w1" -> <<"m1", "m2">>
      [] w = "w2" -> <<"m2", "m3">>
      [] w = "w3" -> <<"m1">>
      [] OTHER    -> <<>>

\* physical_scene.nodes: the root nodes, each named by its rigid body
Roots(w) ==
    CASE w = "w1" -> <<"A">>
      [] w = "w2" -> <<"box1", "E">>
      [] w = "w3" -> <<"box1">>
      [] OTHER    -> <<>>

\* node.children, in declaration order
Children(n) ==
    CASE n = "A" -> <<"B", "C">>
      [] OTHER   -> <<>>

\* node.inner_joint.name ("" when the node declares no joint)
JointName(n) == IF n = "box1" THEN "" ELSE n \o ".joint"

\* physical_scene.mechanisms (names)
Mechanisms(w) == IF w = "w1" THEN <<"R1">> ELSE <<>>

\* the contact material a rigid body refers to
BodyMaterial(n) == IF n \in {"A", "B", "box1"} THEN "m1" ELSE "m2"

\* graphical_scene.root_node (name)
GRoot(w) ==
    CASE w = "w1" -> "g1"
      [] w = "w2" -> "g2"
      [] w = "w3" -> "g3"
      [] w = "mw" -> "root"
      [] OTHER    -> ""

\* graphical node.children, in declaration order
GChildren(g) ==
    CASE g = "g1"  -> <<"gA", "gC">>
      [] g = "gA"  -> <<"gB">>
      [] g = "g2"  -> <<"gbox1", "gE">>
      [] g = "g3"  -> <<"gbox1">>
      [] OTHER     -> <<>>

\* graphical_scene.markers (names), as the World is built
Markers(w) ==
    CASE w = "w1" -> <<"f1">>
      [] w = "w2" -> <<"f1", "f2">>
      [] OTHER    -> <<>>

\* the characters of a name, as iterating over a Python string yields them
Chars(name) ==
    CASE name = "f1"   -> <<"f", "1">>
      [] name = "f2"   -> <<"f", "2">>
      [] name = "box1" -> <<"b", "o", "x", "1">>
      [] OTHER         -> <<name>>

----------------------------------------------------------------------------
(* Sequence helpers *)

Range(s) == {s[i] : i \in 1..Len(s)}

IsInjective(s) == \A i, j \in 1..Len(s) : s[i] = s[j] => i = j

SeqsUpTo(S, n) == UNION {[1..k -> S] : k \in 0..n}

\* list.remove(x): drops the first occurrence of x
RemoveFirst(s, x) ==
    LET i == CHOOSE k \in 1..Len(s) : s[k] = x /\ \A j \in 1..(k-1) : s[j] # x
    IN  SubSeq(s, 1, i-1) \o SubSeq(s, i+1, Len(s))

RECURSIVE ConcatAll(_)
ConcatAll(ss) == IF ss = <<>> THEN <<>> ELSE Head(ss) \o ConcatAll(Tail(ss))

\* desc.core.visitDepthFirst over a physical node: the node, then its children
RECURSIVE DepthFirst(_)
DepthFirst(n) ==
    <<n>> \o ConcatAll([i \in 1..Len(Children(n)) |-> DepthFirst(Children(n)[i])])

\* the rigid-body names of a World, root by root, depth first
RigidBodyNames(w) == ConcatAll([i \in 1..Len(Roots(w)) |-> DepthFirst(Roots(w)[i])])

RECURSIVE GDepthFirst(_)
GDepthFirst(g) ==
    <<g>> \o ConcatAll([i \in 1..Len(GChildren(g)) |-> GDepthFirst(GChildren(g)[i])])

\* the names of graphical nodes of a World
GNodeNames(w) == Range(GDepthFirst(GRoot(w)))

\* the components the physics builder creates for a World
WorldComps(w) ==
    Range(Mechanisms(w))
    \cup UNION {{b, b \o ".comp"} : b \in Range(RigidBodyNames(w))}
    \cup ({JointName(b) : b \in Range(RigidBodyNames(w))} \ {""})

----------------------------------------------------------------------------
(* The state a method works on while it runs.  wm and mk are the contact-  *)
(* material list and the marker list of the World object it was given.     *)

NoError == "none"

Start(w) ==
    [comps |-> comps, bodies |-> bodies, mats |-> mats, ocb |-> ocb,
     gnodes |-> gnodes, gmarkers |-> gmarkers,
     wm |-> wmat[w], mk |-> wmarkers[w],
     handed |-> <<>>, log |-> <<>>, raised |-> NoError, fail |-> 0]

\* one backend call: its name, its argument, whether the thing the argument
\* names was present in the backend when the call was issued, and whether
\* the call returned (ok) or failed
Call(st, name, arg, present) ==
    [st EXCEPT !.log = Append(@, [call |-> name, arg |-> arg, present |-> present,
                                  ok |-> TRUE])]

Raise(st, e) == [st EXCEPT !.raised = e]

\* a backend call that fails: it has no effect and its exception propagates
Failed(st, name, arg, present) ==
    [st EXCEPT !.log = Append(@, [call |-> name, arg |-> arg, present |-> present,
                                  ok |-> FALSE]),
               !.raised = "BackendError"]

\* st.fail is the number of deletions the backend still serves before one
\* fails for a reason of its own (0: none fails)
Fails(st) == st.fail = 1

Served(st) == [st EXCEPT !.fail = IF @ > 0 THEN @ - 1 ELSE 0]

----------------------------------------------------------------------------
(* The backends, as WorldManager uses them (spec.md section 6).  Nothing   *)
(* is called any more once an exception is propagating.                    *)

\* agents.physic.builder.deserializeWorld: creates the bodies, joints,
\* mechanisms and contact materials of the World; defining a contact
\* material the scene already holds is a duplicate-definition failure
PhyDeserializeWorld(st, w) ==
    LET st1 == [Call(st, "phy.deserializeWorld", w, TRUE) EXCEPT !.handed = st.wm]
    IN  IF st.raised # NoError THEN st
        ELSE IF Range(st.wm) \cap st.mats # {}
        THEN Raise(st1, "DuplicateMaterial")
        ELSE [st1 EXCEPT !.mats   = @ \cup Range(st.wm),
                         !.bodies = @ \cup Range(RigidBodyNames(w)),
                         !.comps  = @ \cup WorldComps(w)]

\* phy.s.deleteComponent(name); what the backend does for a name it does not
\* hold is its own business: it ignores the call (tolerant) or it fails
DeleteComponent(st, name, tolerant) ==
    IF st.raised # NoError THEN st
    ELSE IF Fails(st) \/ (name \notin st.comps /\ ~tolerant)
    THEN Failed(st, "deleteComponent", name, name \in st.comps)
    ELSE [Served(Call(st, "deleteComponent", name, name \in st.comps))
            EXCEPT !.comps = @ \ {name}]

\* phy.s.getType(name): the kind of a component
Kind(c) ==
    IF \E w \in Worlds : c \in Range(Mechanisms(w)) THEN "Robot"
    ELSE IF \E w \in Worlds : c \in Range(RigidBodyNames(w)) THEN "RigidBody"
    ELSE IF \E w \in Worlds : \E b \in Range(RigidBodyNames(w)) : c = b \o ".comp"
         THEN "Composite"
    ELSE "Joint"

\* the orders in which the backend may list its components
Listings ==
    LET names(w) == ConcatAll([i \in 1..Len(RigidBodyNames(w)) |->
                        LET b == RigidBodyNames(w)[i]
                        IN  <<JointName(b), b \o ".comp", b>>])
        order == Mechanisms("w1") \o names("w1") \o names("w2")
    IN  {order, [i \in 1..Len(order) |-> order[Len(order) + 1 - i]]}

\* phy.s.getComponents(): the names in the registry, as a list
GetComponents(st, listing) == SelectSeq(listing, LAMBDA c : c \in st.comps)

\* ms.clean(): empties the main scene of its bodies and contact materials
SceneClean(st) ==
    IF st.raised # NoError THEN st
    ELSE [Call(st, "ms.clean", "", TRUE) EXCEPT !.bodies = {}, !.mats = {}]

\* scene.removeRigidBody(name)
RemoveRigidBody(st, name) ==
    IF st.raised # NoError THEN st
    ELSE IF Fails(st) THEN Failed(st, "removeRigidBody", name, name \in st.bodies)
    ELSE [Served(Call(st, "removeRigidBody", name, name \in st.bodies))
            EXCEPT !.bodies = @ \ {name}]

\* scene.removeUnusedContactMaterials(): keeps the materials a body still uses
RemoveUnusedContactMaterials(st) ==
    IF st.raised # NoError THEN st
    ELSE IF Fails(st) THEN Failed(st, "removeUnusedContactMaterials", "", TRUE)
    ELSE [Served(Call(st, "removeUnusedContactMaterials", "", TRUE))
            EXCEPT !.mats = {m \in @ : \E b \in st.bodies : BodyMaterial(b) = m}]

\* ocb.addBody(name) / ocb.removeBody(name) on the body-state output connector
OcbAddBody(st, name) ==
    IF st.raised # NoError THEN st
    ELSE [Call(st, "ocb.addBody", name, name \in st.bodies)
            EXCEPT !.ocb = @ \cup {name}]

OcbRemoveBody(st, name) ==
    IF st.raised # NoError THEN st
    ELSE [Call(st, "ocb.removeBody", name, name \in st.ocb)
            EXCEPT !.ocb = @ \ {name}]

\* contact.removeAllInteractionsInvolving(name)
RemoveAllInteractionsInvolving(st, name) ==
    IF st.raised # NoError THEN st
    ELSE Call(st, "removeAllInteractionsInvolving", name, name \in st.bodies)

\* agents.graphic.builder.deserializeWorld: creates the graphical nodes and
\* the markers of the World
GraphDeserializeWorld(st, w) ==
    IF st.raised # NoError THEN st
    ELSE [Call(st, "graph.deserializeWorld", w, TRUE)
            EXCEPT !.gnodes = @ \cup GNodeNames(w),
                   !.gmarkers = @ \cup Range(st.mk)]

\* graph_scn.SceneInterface.removeNode(name)
RemoveNode(st, name) ==
    IF st.raised # NoError THEN st
    ELSE [Call(st, "removeNode", name, name \in st.gnodes)
            EXCEPT !.gnodes = @ \ {name}]

\* graph_scn.MarkersInterface.addMarker / removeMarker
AddMarker(st, name) ==
    IF st.raised # NoError THEN st
    ELSE [Call(st, "addMarker", name, name \in st.gmarkers)
            EXCEPT !.gmarkers = @ \cup {name}]

RemoveMarker(st, name) ==
    IF st.raised # NoError THEN st
    ELSE [Call(st, "removeMarker", name, name \in st.gmarkers)
            EXCEPT !.gmarkers = @ \ {name}]

\* graph_scn.SceneInterface.clearScene() / MarkersInterface.clearMarkers()
ClearScene(st) ==
    IF st.raised # NoError THEN st
    ELSE [Call(st, "clearScene", "", TRUE) EXCEPT !.gnodes = {}]

ClearMarkers(st) ==
    IF st.raised # NoError THEN st
    ELSE [Call(st, "clearMarkers", "", TRUE) EXCEPT !.gmarkers = {}]

\* GlyphInterface.clearCollections() / MaterialInterface.clearMaterials():
\* glyphs and graphical materials are no state of the model
ClearCollections(st) ==
    IF st.raised # NoError THEN st ELSE Call(st, "clearCollections", "", TRUE)

ClearMaterials(st) ==
    IF st.raised # NoError THEN st ELSE Call(st, "clearMaterials", "", TRUE)

----------------------------------------------------------------------------
(* WorldManager.addWorldToPhysic, core.py 273-292 *)

\* "for mat in Lmat: if mat in scene.getContactMaterials(): ...remove(mat)":
\* the loop walks the list by index while the list shrinks under it
RECURSIVE FilterLoop(_, _, _)
FilterLoop(lst, i, sceneMats) ==
    IF i > Len(lst) THEN lst
    ELSE IF lst[i] \in sceneMats
         THEN FilterLoop(RemoveFirst(lst, lst[i]), i + 1, sceneMats)
         ELSE FilterLoop(lst, i + 1, sceneMats)

\* "while len(cm): cm.remove(cm[-1])"
RECURSIVE EmptyLoop(_)
EmptyLoop(lst) ==
    IF Len(lst) = 0 THEN lst ELSE EmptyLoop(RemoveFirst(lst, lst[Len(lst)]))

\* "Lmat = new_world.scene.physical_scene.contact_materials" binds Lmat to
\* the World's own list: what Lmat holds is whatever that list holds now
Lmat(original, current) == current

\* "cm.extend(Lmat)"
RestoreMaterials(original, current) ==
    LET emptied == EmptyLoop(current)
    IN  emptied \o Lmat(original, emptied)

DoAddWorldToPhysic(st, w) ==
    IF st.raised # NoError THEN st
    ELSE IF ~phy THEN Raise(st, "AttributeError")
    ELSE LET original == st.wm
             st1 == [st EXCEPT !.wm = FilterLoop(st.wm, 1, st.mats)]
             st2 == PhyDeserializeWorld(st1, w)
         IN  IF st2.raised # NoError THEN st2
             ELSE [st2 EXCEPT !.wm = RestoreMaterials(original, st2.wm)]

----------------------------------------------------------------------------
(* WorldManager.addWorldToGraphic, core.py 295-310 *)

RECURSIVE AddBodies(_, _, _)
AddBodies(st, names, i) ==
    IF i > Len(names) THEN st ELSE AddBodies(OcbAddBody(st, names[i]), names, i + 1)

\* without the test for the graphics agent
DoAddWorldToGraphic_Unguarded(st, w) ==
    IF st.raised # NoError THEN st
    ELSE LET st1 == GraphDeserializeWorld(st, w)
         IN  IF ~phy THEN Raise(st1, "AttributeError")
             ELSE AddBodies(st1, RigidBodyNames(w), 1)

DoAddWorldToGraphic(st, w) ==
    IF st.raised # NoError \/ ~graph THEN st
    ELSE LET st1 == GraphDeserializeWorld(st, w)
         IN  IF ~phy THEN Raise(st1, "AttributeError")
             ELSE AddBodies(st1, RigidBodyNames(w), 1)

----------------------------------------------------------------------------
(* WorldManager.addWorld, core.py 314-330 *)

\* graphics before physics
DoAddWorld_GraphicFirst(st, w) ==
    IF ~phy THEN Raise(st, "AttributeError")
    ELSE DoAddWorldToPhysic(DoAddWorldToGraphic(st, w), w)

DoAddWorld(st, w) ==
    IF ~phy THEN Raise(st, "AttributeError")
    ELSE DoAddWorldToGraphic(DoAddWorldToPhysic(st, w), w)

----------------------------------------------------------------------------
(* WorldManager.removeWorldFromGraphic, core.py 333-375 *)

\* deleteNodeInPhysicalAgent(node)
RECURSIVE deleteNodeInPhysicalAgent(_, _), deleteChildrenInPhysicalAgent(_, _, _)
deleteNodeInPhysicalAgent(st, n) ==
    LET st1 == deleteChildrenInPhysicalAgent(st, Children(n), 1)
    IN  OcbRemoveBody(RemoveAllInteractionsInvolving(st1, n), n)

deleteChildrenInPhysicalAgent(st, cs, i) ==
    IF i > Len(cs) THEN st
    ELSE deleteChildrenInPhysicalAgent(deleteNodeInPhysicalAgent(st, cs[i]), cs, i + 1)

\* deleteNodeInGraphicalAgent(node)
RECURSIVE deleteNodeInGraphicalAgent(_, _), deleteChildrenInGraphicalAgent(_, _, _)
deleteNodeInGraphicalAgent(st, g) ==
    LET st1 == deleteChildrenInGraphicalAgent(st, GChildren(g), 1)
    IN  IF g \in st1.gnodes THEN RemoveNode(st1, g) ELSE st1

deleteChildrenInGraphicalAgent(st, cs, i) ==
    IF i > Len(cs) THEN st
    ELSE deleteChildrenInGraphicalAgent(deleteNodeInGraphicalAgent(st, cs[i]), cs, i + 1)

\* "for marker in markers: if marker.name in ...getMarkerLabels(): removeMarker"
RECURSIVE RemoveWorldMarkers(_, _, _)

\* the first marker of the World only
RemoveWorldMarkers_FirstOnly(st, names, i) ==
    IF i > Len(names) \/ i > 1 THEN st
    ELSE RemoveWorldMarkers(
            IF names[i] \in st.gmarkers THEN RemoveMarker(st, names[i]) ELSE st,
            names, i + 1)

RemoveWorldMarkers(st, names, i) ==
    IF i > Len(names) THEN st
    ELSE RemoveWorldMarkers(
            IF names[i] \in st.gmarkers THEN RemoveMarker(st, names[i]) ELSE st,
            names, i + 1)

DoRemoveWorldFromGraphic(st, w) ==
    IF st.raised # NoError \/ ~graph THEN st
    ELSE IF ~phy THEN Raise(st, "AttributeError")
    ELSE IF Len(Roots(w)) = 0 THEN Raise(st, "IndexError")
    ELSE LET st1 == deleteNodeInPhysicalAgent(st, Roots(w)[1])
             st2 == deleteNodeInGraphicalAgent(st1, GRoot(w))
         IN  RemoveWorldMarkers(st2, st2.mk, 1)

----------------------------------------------------------------------------
(* WorldManager.removeWorldFromPhysic, core.py 378-410 *)

\* "for mechanism in ...mechanisms: self.phy.s.deleteComponent(mname)"
RECURSIVE DeleteMechanisms(_, _, _, _)
DeleteMechanisms(st, names, i, tolerant) ==
    IF i > Len(names) THEN st
    ELSE DeleteMechanisms(DeleteComponent(st, names[i], tolerant), names, i + 1, tolerant)

\* the list without the auxiliary component
ToDelete_NoComp(n) == <<n, JointName(n)>>

\* "[rbname, str(rbname+".comp"), str(node.inner_joint.name)]"
ToDelete(n) == <<n, n \o ".comp", JointName(n)>>

\* "for to_del in [...]: if to_del in self.phy.s.getComponents(): deleteComponent"
RECURSIVE DeleteGuarded(_, _, _, _)

\* without the look at the component registry
DeleteGuarded_Unguarded(st, names, i, tolerant) ==
    IF i > Len(names) THEN st
    ELSE DeleteGuarded(DeleteComponent(st, names[i], tolerant), names, i + 1, tolerant)

DeleteGuarded(st, names, i, tolerant) ==
    IF i > Len(names) THEN st
    ELSE DeleteGuarded(
            IF names[i] \in st.comps THEN DeleteComponent(st, names[i], tolerant) ELSE st,
            names, i + 1, tolerant)

\* the statements of removeRigidBodyChildren(node) after its loop over children
RemoveRigidBodyNode(st, n, tolerant) ==
    LET st1 == IF n \in st.bodies THEN RemoveRigidBody(st, n) ELSE st
    IN  DeleteGuarded(st1, ToDelete(n), 1, tolerant)

\* removeRigidBodyChildren(node)
RECURSIVE removeRigidBodyChildren(_, _, _), removeRigidBodyChildrenOf(_, _, _, _)

\* the node first, its children after
removeRigidBodyChildren_NodeFirst(st, n, tolerant) ==
    removeRigidBodyChildrenOf(RemoveRigidBodyNode(st, n, tolerant), Children(n), 1, tolerant)

removeRigidBodyChildren(st, n, tolerant) ==
    RemoveRigidBodyNode(removeRigidBodyChildrenOf(st, Children(n), 1, tolerant), n, tolerant)

\* a child that fails is given up and its siblings are gone through
removeRigidBodyChildrenOf_KeepGoing(st, cs, i, tolerant) ==
    IF i > Len(cs) THEN st
    ELSE removeRigidBodyChildrenOf(
            [removeRigidBodyChildren(st, cs[i], tolerant) EXCEPT !.raised = st.raised],
            cs, i + 1, tolerant)

removeRigidBodyChildrenOf(st, cs, i, tolerant) ==
    IF i > Len(cs) THEN st
    ELSE removeRigidBodyChildrenOf(removeRigidBodyChildren(st, cs[i], tolerant),
                                   cs, i + 1, tolerant)

\* the root nodes of every World, not of old_world alone
RemoveRootNodes_EveryWorld(st, w, tolerant) ==
    removeRigidBodyChildrenOf(st, Roots("w1") \o Roots("w2") \o Roots("w3"), 1, tolerant)

\* "for node in old_world.scene.physical_scene.nodes: removeRigidBodyChildren(node)"
RemoveRootNodes(st, w, tolerant) ==
    removeRigidBodyChildrenOf(st, Roots(w), 1, tolerant)

\* without the purge of unused contact materials
DoRemoveWorldFromPhysic_NoPurge(st, w, tolerant) ==
    IF st.raised # NoError THEN st
    ELSE IF ~phy THEN Raise(st, "AttributeError")
    ELSE RemoveRootNodes(DeleteMechanisms(st, Mechanisms(w), 1, tolerant), w, tolerant)

DoRemoveWorldFromPhysic(st, w, tolerant) ==
    IF st.raised # NoError THEN st
    ELSE IF ~phy THEN Raise(st, "AttributeError")
    ELSE LET st1 == DeleteMechanisms(st, Mechanisms(w), 1, tolerant)
             st2 == RemoveRootNodes(st1, w, tolerant)
         IN  RemoveUnusedContactMaterials(st2)

\* the caller's two threads, each of which makes one removeWorldFromPhysic
\* call, on Worlds that share the body "box1"
Threads == {"t1", "t2"}

WorldOf(t) == IF t = "t1" THEN "w2" ELSE "w3"

\* a thread that has not made its call yet: pc is the place in the Program
\* of World w (0: in no call), issued the per-node deleteComponent calls
\* made, each with whether its component was still there
Idle == [w |-> "", pc |-> 0, issued |-> <<>>, raised |-> NoError, called |-> FALSE]

\* a single-threaded caller
NoThreads == [serialized |-> TRUE, of |-> [t \in Threads |-> Idle]]

\* removeWorldFromPhysic as the sequence of the backend calls it may issue:
\* an existence test (getBodyNames, getComponents) decides whether the call
\* that follows it is made
Instr(op, name) == [op |-> op, name |-> name]

\* "for to_del in [...]: if to_del in getComponents(): deleteComponent(to_del)"
ProgramOfDeletions(names) ==
    ConcatAll([i \in 1..Len(names) |->
        <<Instr("getComponents", names[i]), Instr("deleteComponent", names[i])>>])

\* removeRigidBodyChildren(node)
RECURSIVE ProgramOfNode(_)
ProgramOfNode(n) ==
    ConcatAll([i \in 1..Len(Children(n)) |-> ProgramOfNode(Children(n)[i])])
    \o <<Instr("getBodyNames", n), Instr("removeRigidBody", n)>>
    \o ProgramOfDeletions(ToDelete(n))

Program(w) ==
    [i \in 1..Len(Mechanisms(w)) |-> Instr("deleteMechanism", Mechanisms(w)[i])]
    \o ConcatAll([i \in 1..Len(Roots(w)) |-> ProgramOfNode(Roots(w)[i])])
    \o <<Instr("removeUnusedContactMaterials", "")>>

\* without the look at the registry: the test always passes
Found_Always(st, instr) == TRUE

\* "rbname in scene.getBodyNames()" / "to_del in self.phy.s.getComponents()"
Found(st, instr) ==
    IF instr.op = "getBodyNames" THEN instr.name \in st.bodies
    ELSE instr.name \in st.comps

\* one backend call of the Program
Execute(st, instr, tolerant) ==
    CASE instr.op \in {"deleteMechanism", "deleteComponent"} ->
            DeleteComponent(st, instr.name, tolerant)
      [] instr.op = "removeRigidBody" -> RemoveRigidBody(st, instr.name)
      [] instr.op = "removeUnusedContactMaterials" -> RemoveUnusedContactMaterials(st)
      [] OTHER -> Call(st, instr.op, instr.name, Found(st, instr))

\* the thread after the call: a test that fails skips the call it guards, an
\* exception or the end of the Program ends the method
Advance(th, st, instr) ==
    LET found == Found(st, instr)
        test  == instr.op \in {"getBodyNames", "getComponents"}
        next  == IF test /\ ~found THEN th.pc + 2 ELSE th.pc + 1
        ended == st.raised # NoError \/ next > Len(Program(th.w))
    IN  [th EXCEPT !.pc = IF ended THEN 0 ELSE next,
                   !.raised = st.raised,
                   !.issued = IF instr.op = "deleteComponent"
                              THEN Append(@, [arg |-> instr.name,
                                              present |-> instr.name \in comps])
                              ELSE @]

----------------------------------------------------------------------------
(* WorldManager.cleanPhy, core.py 439-450 *)

\* "for c in [...]: self.phy.s.deleteComponent(c)": the list is made before
\* the loop starts
RECURSIVE DeleteComponents(_, _, _, _)
DeleteComponents(st, names, i, tolerant) ==
    IF i > Len(names) THEN st
    ELSE DeleteComponents(DeleteComponent(st, names[i], tolerant), names, i + 1, tolerant)

\* "[comp for comp in self.phy.s.getComponents() if self.phy.s.getType(comp) == kind]"
OfKind(st, listing, kind) ==
    SelectSeq(GetComponents(st, listing), LAMBDA c : Kind(c) = kind)

\* 'for kind in ["Robot", "RigidBody", "Composite"]: ...'
RECURSIVE DeleteKinds(_, _, _, _, _)
DeleteKinds(st, listing, kinds, i, tolerant) ==
    IF i > Len(kinds) THEN st
    ELSE DeleteKinds(DeleteComponents(st, OfKind(st, listing, kinds[i]), 1, tolerant),
                     listing, kinds, i + 1, tolerant)

\* the scene cleared at the end
DoCleanPhy_CleanLast(st, listing, tolerant) ==
    IF ~phy THEN st
    ELSE LET st2 == DeleteKinds(st, listing, <<"Robot", "RigidBody", "Composite">>,
                                1, tolerant)
             st3 == DeleteComponents(st2, GetComponents(st2, listing), 1, tolerant)
         IN  SceneClean(st3)

DoCleanPhy(st, listing, tolerant) ==
    IF ~phy THEN st
    ELSE LET st1 == SceneClean(st)
             st2 == DeleteKinds(st1, listing, <<"Robot", "RigidBody", "Composite">>,
                                1, tolerant)
         IN  DeleteComponents(st2, GetComponents(st2, listing), 1, tolerant)

----------------------------------------------------------------------------
(* WorldManager.removeWorld, core.py 413-426 *)

\* physics before graphics
DoRemoveWorld_PhysicFirst(st, w, tolerant) ==
    DoRemoveWorldFromGraphic(DoRemoveWorldFromPhysic(st, w, tolerant), w)

DoRemoveWorld(st, w, tolerant) ==
    DoRemoveWorldFromPhysic(DoRemoveWorldFromGraphic(st, w), w, tolerant)

----------------------------------------------------------------------------
(* Python values passed as marker_name_list / bodies_to_display: a string, *)
(* a list of strings, or None                                              *)

Str(name)   == [kind |-> "str",  str |-> name, items |-> <<>>]
List(names) == [kind |-> "list", str |-> "",   items |-> names]
None        == [kind |-> "none", str |-> "",   items |-> <<>>]
Bool(b)     == [kind |-> "bool", str |-> IF b THEN "True" ELSE "False", items |-> <<>>]

\* a str counted as iterable too
HasIter_StrToo(x) == x.kind \in {"list", "str"}

\* hasattr(x, '__iter__'): this is Python 2 code (core.py 247 "raise
\* ImportError, ...", 265 "print ..."), where a str has no __iter__
HasIter(x) == x.kind = "list"

\* what "for e in x" yields
Iterate(x) == IF x.kind = "list" THEN x.items ELSE Chars(x.str)

----------------------------------------------------------------------------
(* WorldManager.addFreeMarkers, core.py 530-546 *)

\* "marker = world.scene.graphical_scene.markers.add(); marker.name = ..."
RECURSIVE AppendMarkers(_, _, _)
AppendMarkers(mk, names, i) ==
    IF i > Len(names) THEN mk ELSE AppendMarkers(Append(mk, names[i]), names, i + 1)

DoAddFreeMarkers(st, marker_name_list) ==
    LET lst == IF ~HasIter(marker_name_list)
               THEN List(<<marker_name_list.str>>)
               ELSE marker_name_list
    IN  [st EXCEPT !.mk = AppendMarkers(@, Iterate(lst), 1)]

----------------------------------------------------------------------------
(* WorldManager.createMarkerWorld, core.py 494-504 *)

\* "marker_world = desc.scene.createWorld(name = world_name)": a World with
\* empty lists; then addFreeMarkers on it
DoCreateMarkerWorld(st, marker_name_list) ==
    DoAddFreeMarkers([st EXCEPT !.wm = <<>>, !.mk = <<>>], marker_name_list)

----------------------------------------------------------------------------
(* WorldManager.addMarkers, core.py 463-491 *)

\* the first root node alone
AllNodeNames_FirstRootOnly(w) ==
    IF Len(Roots(w)) = 0 THEN <<>> ELSE DepthFirst(Roots(w)[1])

\* "for child in world.scene.physical_scene.nodes:
\*      desc.core.visitDepthFirst(getNodeName, child)"
AllNodeNames(w) == RigidBodyNames(w)

\* "for body_name in bodies_to_display: if body_name not in
\*  ...getMarkerLabels(): self.addFreeMarkers(world, str(body_name))"
RECURSIVE AddBodyMarkers(_, _, _)
AddBodyMarkers(st, names, i) ==
    IF i > Len(names) THEN st
    ELSE AddBodyMarkers(
            IF names[i] \notin st.gmarkers
            THEN DoAddFreeMarkers(st, Str(names[i]))
            ELSE st,
            names, i + 1)

DoAddMarkers(st, w, bodies_to_display) ==
    IF ~graph THEN st
    ELSE LET names == IF bodies_to_display.kind = "none"
                      THEN AllNodeNames(w)
                      ELSE Iterate(bodies_to_display)
         IN  AddBodyMarkers(st, names, 1)

----------------------------------------------------------------------------
(* WorldManager.removeMarkers, core.py 549-575 *)

\* "for body_name in bodies_to_hide: if body_name in
\*  ...getMarkerLabels(): ...removeMarker(str(body_name))"
RECURSIVE RemoveBodyMarkers(_, _, _)

\* without the look at the marker labels
RemoveBodyMarkers_Unguarded(st, names, i) ==
    IF i > Len(names) THEN st
    ELSE RemoveBodyMarkers(RemoveMarker(st, names[i]), names, i + 1)

RemoveBodyMarkers(st, names, i) ==
    IF i > Len(names) THEN st
    ELSE RemoveBodyMarkers(
            IF names[i] \in st.gmarkers THEN RemoveMarker(st, names[i]) ELSE st,
            names, i + 1)

DoRemoveMarkers(st, w, bodies_to_hide) ==
    IF ~graph THEN st
    ELSE LET names == IF bodies_to_hide.kind = "none"
                      THEN AllNodeNames(w)
                      ELSE Iterate(bodies_to_hide)
         IN  RemoveBodyMarkers(st, names, 1)

----------------------------------------------------------------------------
(* WorldManager.addMarkerToSimulation, core.py 507-517 *)

DoAddMarkerToSimulation(st, name) ==
    IF ~graph THEN st ELSE AddMarker(st, name)

----------------------------------------------------------------------------
(* WorldManager.removeMarkerFromSimulation, core.py 519-528 *)

DoRemoveMarkerFromSimulation(st, name) ==
    IF ~graph THEN st ELSE RemoveMarker(st, name)

----------------------------------------------------------------------------
(* WorldManager.cleanGraph, core.py 429-436 *)

DoCleanGraph(st) ==
    IF ~graph THEN st
    ELSE ClearMaterials(ClearCollections(ClearMarkers(ClearScene(st))))

----------------------------------------------------------------------------
(* The agents: creation, wiring, start and stop (core.py 78-229).  A method *)
(* works on the handles self.clock, self.phy, self.graph, self.markers, on  *)
(* the started tasks and on the port connections.                           *)

AgentState ==
    [clock |-> clock, phy |-> phy, graph |-> graph, markers |-> markers,
     running |-> running, wired |-> wired, log |-> <<>>, raised |-> NoError]

ClockToPhysic == <<"clock.ticks", "phy.clock_trigger">>

FrameToMarkers == <<"graph.framePosition", "markers.markerPositionPort_out">>

BodyStateToGraph == <<"graph.body_state_H", "phy.body_state_H">>

ContactsToGraph == <<"graph.contacts", "phy.contacts">>

\* port.connectTo(port)
ConnectTo(ag, link) ==
    [Call(ag, "connectTo", link[1], TRUE) EXCEPT !.wired = @ \cup {link}]

\* task.s.start() / task.s.stop()
StartTask(ag, name) ==
    [Call(ag, "start", name, name \in ag.running) EXCEPT !.running = @ \cup {name}]

StopTask(ag, name) ==
    [Call(ag, "stop", name, name \in ag.running) EXCEPT !.running = @ \ {name}]

\* createClockAgent, core.py 78-89
DoCreateClockAgent(ag) ==
    IF ag.raised # NoError THEN ag
    ELSE [Call(ag, "createClock", "clock", TRUE) EXCEPT !.clock = TRUE]

\* createPhysicAgent, core.py 91-123: the agent, its two scenes, the output
\* connectors, the trigger input port and the synchro connector
DoCreatePhysicAgent(ag) ==
    IF ag.raised # NoError THEN ag
    ELSE LET a1 == [Call(ag, "createAgent", "phy", TRUE) EXCEPT !.phy = TRUE]
             a2 == Call(a1, "createGVMScene", "main", TRUE)
             a3 == Call(a2, "createXCDScene", "xcd", TRUE)
             a4 == Call(a3, "newConnector", "ocb", TRUE)
             a5 == Call(a4, "newConnector", "occ", TRUE)
             a6 == Call(a5, "addCreateInputPort", "clock_trigger", TRUE)
             a7 == Call(a6, "newConnector", "icsync", TRUE)
         IN  Call(a7, "addEvent", "clock_trigger", TRUE)

\* without the two assertions
DoConnectClockToPhysic_NoAssert(ag) ==
    IF ag.raised # NoError THEN ag ELSE ConnectTo(ag, ClockToPhysic)

\* connectClockToPhysic, core.py 181-185
DoConnectClockToPhysic(ag) ==
    IF ag.raised # NoError THEN ag
    ELSE IF ~ag.clock \/ ~ag.phy THEN Raise(ag, "AssertionError")
    ELSE ConnectTo(ag, ClockToPhysic)

\* createGraphicAgent, core.py 125-151: the graphics task is started here;
\* the marker-position agent takes its period from self.clock
DoCreateGraphicAgent(ag) ==
    IF ag.raised # NoError THEN ag
    ELSE LET a1 == [Call(ag, "createAgent", "graph", TRUE) EXCEPT !.graph = TRUE]
             a2 == Call(a1, "newConnector", "icb", TRUE)
             a3 == Call(a2, "newConnector", "icf", TRUE)
             a4 == Call(a3, "newConnector", "icc", TRUE)
             a5 == StartTask(a4, "graph")
         IN  IF ~a5.clock THEN Raise(a5, "AttributeError")
             ELSE LET a6 == [Call(a5, "MarkerManager", "markers", TRUE)
                                EXCEPT !.markers = TRUE]
                      a7 == ConnectTo(a6, FrameToMarkers)
                  IN  StartTask(a7, "markers")

\* connectGraphToPhysic, core.py 153-158
DoConnectGraphToPhysic(ag) ==
    IF ag.raised # NoError THEN ag
    ELSE IF ~ag.graph \/ ~ag.phy THEN Raise(ag, "AssertionError")
    ELSE ConnectTo(ConnectTo(ag, BodyStateToGraph), ContactsToGraph)

\* port.disconnect(): the connections of the port are undone
Disconnect(ag, port) ==
    [Call(ag, "disconnect", port, \E link \in ag.wired : link[1] = port)
        EXCEPT !.wired = {link \in @ : link[1] # port}]

\* disconnectGraphFromPhysic, core.py 160-167
DoDisconnectGraphFromPhysic(ag) ==
    IF ag.raised # NoError THEN ag
    ELSE IF ~ag.graph \/ ~ag.phy THEN Raise(ag, "AssertionError")
    ELSE LET a1 == Disconnect(ag, "graph.body_state_H")
             a2 == Disconnect(a1, "graph.framePosition")
         IN  Disconnect(a2, "graph.contacts")

\* createAndConnectGraphicAgent, core.py 226-229
DoCreateAndConnectGraphicAgent(ag) ==
    DoConnectGraphToPhysic(DoCreateGraphicAgent(ag))

\* the graphics agent created and connected before the clock is wired
DoCreateAllAgents_GraphicBeforeWiring(ag, create_graphic) ==
    LET a1 == DoCreateClockAgent(ag)
        a2 == DoCreatePhysicAgent(a1)
        a3 == IF create_graphic THEN DoCreateAndConnectGraphicAgent(a2) ELSE a2
    IN  DoConnectClockToPhysic(a3)

\* createAllAgents, core.py 207-224
DoCreateAllAgents(ag, create_graphic) ==
    LET a1 == DoCreateClockAgent(ag)
        a2 == DoCreatePhysicAgent(a1)
        a3 == DoConnectClockToPhysic(a2)
    IN  IF create_graphic THEN DoCreateAndConnectGraphicAgent(a3) ELSE a3

\* startAgents, core.py 187-195
DoStartAgents(ag) ==
    LET a1 == IF ag.clock THEN StartTask(ag, "clock") ELSE ag
    IN  IF a1.phy THEN StartTask(a1, "phy") ELSE a1

\* the graphics agent stopped with the two others
DoStopAgents_GraphToo(ag) ==
    LET a1 == IF ag.clock THEN StopTask(ag, "clock") ELSE ag
        a2 == IF a1.phy THEN StopTask(a1, "phy") ELSE a1
    IN  IF a2.graph THEN StopTask(a2, "graph") ELSE a2

\* stopAgents, core.py 198-204
DoStopAgents(ag) ==
    LET a1 == IF ag.clock THEN StopTask(ag, "clock") ELSE ag
    IN  IF a1.phy THEN StopTask(a1, "phy") ELSE a1

----------------------------------------------------------------------------
(* The record of an operation *)

\* the state an operation on World w starts from
Pre(w) ==
    [comps |-> comps, bodies |-> bodies, mats |-> mats, ocb |-> ocb,
     gnodes |-> gnodes, gmarkers |-> gmarkers,
     wm |-> wmat[w], mk |-> wmarkers[w],
     running |-> running, wired |-> wired]

NoPre ==
    [comps |-> {}, bodies |-> {}, mats |-> {}, ocb |-> {},
     gnodes |-> {}, gmarkers |-> {}, wm |-> <<>>, mk |-> <<>>,
     running |-> {}, wired |-> {}]

NoOp ==
    [op |-> "none", w |-> "", arg |-> None, raised |-> NoError, pre |-> NoPre,
     handed |-> <<>>, log |-> <<>>]

NoRT == [add |-> "none", w |-> "", pre |-> NoPre]

\* the operations whose repetition is followed: those a second call of which
\* is to find its work done (spec.md 4.3, 7)
Repeatable == {"addMarkers", "removeMarkers", "removeWorldFromPhysic"}

\* the call op(w, arg) is the call of the last operation, which returned
Repeats(op, w, arg) ==
    /\ op \in Repeatable
    /\ last.op = op /\ last.w = w /\ last.arg = arg /\ last.raised = NoError

\* which remove undoes which add
Undoes(removeOp, addOp) ==
    \/ removeOp = "removeWorldFromPhysic"  /\ addOp = "addWorldToPhysic"
    \/ removeOp = "removeWorldFromGraphic" /\ addOp = "addWorldToGraphic"
    \/ removeOp = "removeWorld"            /\ addOp = "addWorld"
    \/ removeOp = "connectGraphToPhysic"   /\ addOp = "disconnectGraphFromPhysic"

\* the method returns (or raises): the backends and the World object are as
\* the method left them
Commit(op, w, arg, st) ==
    /\ comps'    = st.comps
    /\ bodies'   = st.bodies
    /\ mats'     = st.mats
    /\ ocb'      = st.ocb
    /\ gnodes'   = st.gnodes
    /\ gmarkers' = st.gmarkers
    /\ wmat'     = [wmat EXCEPT ![w] = st.wm]
    /\ wmarkers' = [wmarkers EXCEPT ![w] = st.mk]
    /\ last'     = [op |-> op, w |-> w, arg |-> arg, raised |-> st.raised,
                    pre |-> Pre(w), handed |-> st.handed, log |-> st.log]
    /\ rt'       = IF Undoes(op, last.op) /\ last.w = w /\ last.raised = NoError
                   THEN [add |-> last.op, w |-> w, pre |-> last.pre]
                   ELSE NoRT
    /\ twice'    = Repeats(op, w, arg)
    /\ UNCHANGED <<clock, phy, graph, markers, running, wired, threads>>

\* the same for a method that is given no World
StartNoWorld ==
    [comps |-> comps, bodies |-> bodies, mats |-> mats, ocb |-> ocb,
     gnodes |-> gnodes, gmarkers |-> gmarkers, wm |-> <<>>, mk |-> <<>>,
     handed |-> <<>>, log |-> <<>>, raised |-> NoError, fail |-> 0]

CommitNoWorld(op, arg, st) ==
    /\ comps'    = st.comps
    /\ bodies'   = st.bodies
    /\ mats'     = st.mats
    /\ ocb'      = st.ocb
    /\ gnodes'   = st.gnodes
    /\ gmarkers' = st.gmarkers
    /\ last'     = [op |-> op, w |-> "", arg |-> arg, raised |-> st.raised,
                    pre |-> [Pre("w1") EXCEPT !.wm = <<>>, !.mk = <<>>],
                    handed |-> st.handed, log |-> st.log]
    /\ rt'       = NoRT
    /\ twice'    = Repeats(op, "", arg)
    /\ UNCHANGED <<clock, phy, graph, markers, running, wired, wmat, wmarkers,
                   threads>>

----------------------------------------------------------------------------
(* The operations *)

\* the contact-material lists a World can be built with
MatLists == {s \in SeqsUpTo(Mats, MaxMatLen) : IsInjective(s)}

\* WorldManager.__init__ (core.py 59-65): no agent yet, empty backends; the
\* caller has built its World objects
Init ==
    /\ clock = FALSE /\ phy = FALSE /\ graph = FALSE /\ markers = FALSE
    /\ running = {} /\ wired = {}
    /\ comps = {} /\ bodies = {} /\ mats = {} /\ ocb = {}
    /\ gnodes = {} /\ gmarkers = {}
    /\ wmat = [w \in AllWorlds |-> ContactMaterials(w)]
    /\ wmarkers = [w \in AllWorlds |-> Markers(w)]
    /\ last = NoOp
    /\ rt = NoRT
    /\ twice = FALSE
    /\ threads = NoThreads

\* the same, for Worlds w1 and w2 built with any contact-material list
InitPhy ==
    /\ clock = FALSE /\ phy = FALSE /\ graph = FALSE /\ markers = FALSE
    /\ running = {} /\ wired = {}
    /\ comps = {} /\ bodies = {} /\ mats = {} /\ ocb = {}
    /\ gnodes = {} /\ gmarkers = {}
    /\ wmat \in {f \in [AllWorlds -> MatLists] :
                    f["w3"] = ContactMaterials("w3") /\ f["mw"] = ContactMaterials("mw")}
    /\ wmarkers = [w \in AllWorlds |-> <<>>]
    /\ last = NoOp
    /\ rt = NoRT
    /\ twice = FALSE
    /\ threads = NoThreads

\* a lifecycle method returns (or raises): the agents are as it left them
CommitAgents(op, arg, ag) ==
    /\ clock'   = ag.clock
    /\ phy'     = ag.phy
    /\ graph'   = ag.graph
    /\ markers' = ag.markers
    /\ running' = ag.running
    /\ wired'   = ag.wired
    /\ last'    = [op |-> op, w |-> "", arg |-> arg, raised |-> ag.raised,
                   pre |-> [Pre("w1") EXCEPT !.wm = <<>>, !.mk = <<>>],
                   handed |-> <<>>, log |-> ag.log]
    /\ rt'      = IF Undoes(op, last.op) /\ last.raised = NoError
                  THEN [add |-> last.op, w |-> "", pre |-> last.pre]
                  ELSE NoRT
    /\ twice'   = Repeats(op, "", arg)
    /\ UNCHANGED <<comps, bodies, mats, ocb, gnodes, gmarkers, wmat, wmarkers,
                   threads>>

\* createAllAgents(time_step, create_graphic=...), core.py 207-224; the
\* agents are deployed once, under fixed names
createAllAgents(create_graphic) ==
    /\ ~clock /\ ~phy /\ ~graph
    /\ CommitAgents("createAllAgents", Bool(create_graphic),
                    DoCreateAllAgents(AgentState, create_graphic))

addWorldToPhysic(w) ==
    Commit("addWorldToPhysic", w, None, DoAddWorldToPhysic(Start(w), w))

addWorldToGraphic(w) ==
    Commit("addWorldToGraphic", w, None, DoAddWorldToGraphic(Start(w), w))

addWorld(w) ==
    Commit("addWorld", w, None, DoAddWorld(Start(w), w))

removeWorldFromGraphic(w) ==
    Commit("removeWorldFromGraphic", w, None, DoRemoveWorldFromGraphic(Start(w), w))

removeWorldFromPhysic(w, tolerant) ==
    Commit("removeWorldFromPhysic", w, None, DoRemoveWorldFromPhysic(Start(w), w, tolerant))

removeWorld(w, tolerant) ==
    Commit("removeWorld", w, None, DoRemoveWorld(Start(w), w, tolerant))

Next ==
    \/ \E g \in BOOLEAN : createAllAgents(g)
    \/ \E w \in Worlds : addWorldToPhysic(w)
    \/ \E w \in Worlds : addWorldToGraphic(w)
    \/ \E w \in Worlds : addWorld(w)
    \/ \E w \in Worlds : removeWorldFromGraphic(w)
    \/ \E w \in Worlds, tolerant \in BOOLEAN : removeWorldFromPhysic(w, tolerant)
    \/ \E w \in Worlds, tolerant \in BOOLEAN : removeWorld(w, tolerant)

Spec == Init /\ [][Next]_vars

cleanPhy(listing, tolerant) ==
    CommitNoWorld("cleanPhy", None, DoCleanPhy(StartNoWorld, listing, tolerant))

\* the physics side alone, over every contact-material list
NextPhy ==
    \/ \E g \in BOOLEAN : createAllAgents(g)
    \/ \E w \in Worlds : addWorldToPhysic(w)
    \/ \E w \in Worlds, tolerant \in BOOLEAN : removeWorldFromPhysic(w, tolerant)
    \/ \E listing \in Listings, tolerant \in BOOLEAN : cleanPhy(listing, tolerant)

SpecPhy == InitPhy /\ [][NextPhy]_vars

\* removeWorldFromPhysic on a backend whose failAt-th deletion fails
removeWorldFromPhysicInterrupted(w, tolerant, failAt) ==
    Commit("removeWorldFromPhysic", w, None,
           DoRemoveWorldFromPhysic([Start(w) EXCEPT !.fail = failAt], w, tolerant))

\* the physics side on a backend that may fail, for the World with a
\* mechanism and a tree of bodies and the World of one body
NextFailure ==
    \/ \E g \in BOOLEAN : createAllAgents(g)
    \/ \E w \in {"w1", "w3"} : addWorldToPhysic(w)
    \/ \E w \in {"w1", "w3"}, tolerant \in BOOLEAN : removeWorldFromPhysic(w, tolerant)
    \/ \E w \in {"w1", "w3"}, tolerant \in BOOLEAN, failAt \in 1..MaxFailAt :
            removeWorldFromPhysicInterrupted(w, tolerant, failAt)

SpecFailure == Init /\ [][NextFailure]_vars

\* a caller with two threads, which either holds a lock around each
\* removeWorldFromPhysic call (serialized) or does not
InitInterleaved ==
    /\ clock = FALSE /\ phy = FALSE /\ graph = FALSE /\ markers = FALSE
    /\ running = {} /\ wired = {}
    /\ comps = {} /\ bodies = {} /\ mats = {} /\ ocb = {}
    /\ gnodes = {} /\ gmarkers = {}
    /\ wmat = [w \in AllWorlds |-> ContactMaterials(w)]
    /\ wmarkers = [w \in AllWorlds |-> Markers(w)]
    /\ last = NoOp
    /\ rt = NoRT
    /\ twice = FALSE
    /\ threads \in {[serialized |-> s, of |-> [t \in Threads |-> Idle]] : s \in BOOLEAN}

AllIdle == \A t \in Threads : threads.of[t].pc = 0

\* the scene is set up before the threads make their calls
SetUp == \A t \in Threads : ~threads.of[t].called

addWorldToPhysicFirst(w) ==
    /\ SetUp
    /\ addWorldToPhysic(w)

\* a thread enters removeWorldFromPhysic(w)
beginRemoveWorldFromPhysic(t, w) ==
    /\ threads.of[t].pc = 0
    /\ ~threads.of[t].called
    /\ threads.serialized => AllIdle
    /\ threads' = [threads EXCEPT !.of[t] =
                        [Idle EXCEPT !.w = w, !.pc = 1, !.called = TRUE]]
    /\ UNCHANGED <<clock, phy, graph, markers, running, wired, comps, bodies, mats,
                   ocb, gnodes, gmarkers, wmat, wmarkers, last, rt, twice>>

\* a thread makes the next backend call of its removeWorldFromPhysic
stepRemoveWorldFromPhysic(t, tolerant) ==
    LET th    == threads.of[t]
        instr == Program(th.w)[th.pc]
        st    == IF phy THEN Execute(Start(th.w), instr, tolerant)
                 ELSE Raise(Start(th.w), "AttributeError")
    IN  /\ th.pc > 0
        /\ comps'  = st.comps
        /\ bodies' = st.bodies
        /\ mats'   = st.mats
        /\ threads' = [threads EXCEPT !.of[t] = Advance(th, st, instr)]
        /\ UNCHANGED <<clock, phy, graph, markers, running, wired, ocb, gnodes,
                       gmarkers, wmat, wmarkers, last, rt, twice>>

NextInterleaved ==
    \/ \E g \in BOOLEAN : SetUp /\ createAllAgents(g)
    \/ \E w \in {"w2", "w3"} : addWorldToPhysicFirst(w)
    \/ \E t \in Threads : beginRemoveWorldFromPhysic(t, WorldOf(t))
    \/ \E t \in Threads, tolerant \in BOOLEAN : stepRemoveWorldFromPhysic(t, tolerant)

SpecInterleaved == InitInterleaved /\ [][NextInterleaved]_vars

\* the marker operations, on Worlds built without markers
InitMarkers ==
    /\ clock = FALSE /\ phy = FALSE /\ graph = FALSE /\ markers = FALSE
    /\ running = {} /\ wired = {}
    /\ comps = {} /\ bodies = {} /\ mats = {} /\ ocb = {}
    /\ gnodes = {} /\ gmarkers = {}
    /\ wmat = [w \in AllWorlds |-> ContactMaterials(w)]
    /\ wmarkers = [w \in AllWorlds |-> <<>>]
    /\ last = NoOp
    /\ rt = NoRT
    /\ twice = FALSE
    /\ threads = NoThreads

\* the names the caller gives to free markers
FreeNames == {"f1", "f2"}

\* the marker records of all Worlds together
RECURSIVE SumLen(_, _)
SumLen(f, S) ==
    IF S = {} THEN 0
    ELSE LET x == CHOOSE y \in S : TRUE IN Len(f[x]) + SumLen(f, S \ {x})

\* the model stops growing marker lists at MaxMarkers records over all Worlds
Room(st, w) == SumLen([wmarkers EXCEPT ![w] = st.mk], Worlds) <= MaxMarkers

addFreeMarkers(w, marker_name_list) ==
    LET st == DoAddFreeMarkers(Start(w), marker_name_list)
    IN  /\ Room(st, w)
        /\ Commit("addFreeMarkers", w, marker_name_list, st)

addMarkers(w, bodies_to_display) ==
    LET st == DoAddMarkers(Start(w), w, bodies_to_display)
    IN  /\ Room(st, w)
        /\ Commit("addMarkers", w, bodies_to_display, st)

addMarkerToSimulation(name) ==
    CommitNoWorld("addMarkerToSimulation", Str(name),
                  DoAddMarkerToSimulation(StartNoWorld, name))

NextMarkers ==
    \/ \E g \in BOOLEAN : createAllAgents(g)
    \/ \E w \in Worlds, n \in FreeNames : addFreeMarkers(w, Str(n))
    \/ \E w \in Worlds, l \in SeqsUpTo(FreeNames, MaxNames) : addFreeMarkers(w, List(l))
    \/ \E w \in Worlds : addMarkers(w, None)
    \/ \E w \in Worlds : \E l \in SeqsUpTo(Range(Roots(w)), MaxNames) :
            addMarkers(w, List(l))
    \/ \E n \in {"A", "box1"} : addMarkerToSimulation(n)

SpecMarkers == InitMarkers /\ [][NextMarkers]_vars

removeMarkers(w, bodies_to_hide) ==
    Commit("removeMarkers", w, bodies_to_hide, DoRemoveMarkers(Start(w), w, bodies_to_hide))

removeMarkerFromSimulation(name) ==
    CommitNoWorld("removeMarkerFromSimulation", Str(name),
                  DoRemoveMarkerFromSimulation(StartNoWorld, name))

cleanGraph ==
    CommitNoWorld("cleanGraph", None, DoCleanGraph(StartNoWorld))

\* the marker overlays: markers asked for and hidden per World, next to
\* markers put into and taken from the graphical scene directly
NextOverlay ==
    \/ \E g \in BOOLEAN : createAllAgents(g)
    \/ \E w \in Worlds : addMarkers(w, None)
    \/ \E w \in Worlds : \E l \in SeqsUpTo(Range(Roots(w)), MaxNames) :
            addMarkers(w, List(l))
    \/ \E w \in Worlds : removeMarkers(w, None)
    \/ \E w \in Worlds : \E l \in SeqsUpTo(Range(Roots(w)), MaxNames) :
            removeMarkers(w, List(l))
    \/ \E n \in {"A", "box1"} : addMarkerToSimulation(n)
    \/ \E n \in {"A", "box1"} : removeMarkerFromSimulation(n)

SpecOverlay == InitMarkers /\ [][NextOverlay]_vars

\* the caller is handed a new marker-only World
createMarkerWorld(world_name, marker_name_list) ==
    Commit("createMarkerWorld", world_name, marker_name_list,
           DoCreateMarkerWorld(Start(world_name), marker_name_list))

\* a marker-only World and a World of one body, to and from the graphics
NextMarkerWorld ==
    \/ \E g \in BOOLEAN : createAllAgents(g)
    \/ \E n \in FreeNames : createMarkerWorld("mw", Str(n))
    \/ \E l \in SeqsUpTo(FreeNames, MaxNames) : createMarkerWorld("mw", List(l))
    \/ \E w \in MarkerWorlds \cup {"w3"} : addWorldToGraphic(w)
    \/ \E w \in MarkerWorlds \cup {"w3"} : removeWorldFromGraphic(w)

SpecMarkerWorld == Init /\ [][NextMarkerWorld]_vars

\* Worlds added and removed as a whole only
NextWorld ==
    \/ \E g \in BOOLEAN : createAllAgents(g)
    \/ \E w \in Worlds : addWorld(w)
    \/ \E w \in Worlds, tolerant \in BOOLEAN : removeWorld(w, tolerant)

SpecWorld == Init /\ [][NextWorld]_vars

\* Worlds added and removed as a whole, next to markers put into the
\* simulation directly
NextRoundTrip ==
    \/ \E g \in BOOLEAN : createAllAgents(g)
    \/ \E w \in Worlds : addWorld(w)
    \/ \E w \in Worlds, tolerant \in BOOLEAN : removeWorld(w, tolerant)
    \/ \E n \in FreeNames : addMarkerToSimulation(n)

SpecRoundTrip == Init /\ [][NextRoundTrip]_vars

\* a simulation without graphics agent: the graphics-side methods called
\* next to a physics backend that Worlds are added to and removed from
NextNoGraphic ==
    \/ createAllAgents(FALSE)
    \/ \E w \in Worlds : addWorldToPhysic(w)
    \/ \E w \in Worlds, tolerant \in BOOLEAN : removeWorldFromPhysic(w, tolerant)
    \/ \E w \in Worlds : addWorldToGraphic(w)
    \/ \E w \in Worlds : removeWorldFromGraphic(w)
    \/ cleanGraph
    \/ \E w \in Worlds : addMarkers(w, None)
    \/ \E w \in Worlds : \E l \in SeqsUpTo(Range(Roots(w)), MaxNames) :
            addMarkers(w, List(l))
    \/ \E w \in Worlds : removeMarkers(w, None)
    \/ \E w \in Worlds : \E l \in SeqsUpTo(Range(Roots(w)), MaxNames) :
            removeMarkers(w, List(l))
    \/ \E n \in {"A", "box1"} : addMarkerToSimulation(n)
    \/ \E n \in {"A", "box1"} : removeMarkerFromSimulation(n)

SpecNoGraphic == Init /\ [][NextNoGraphic]_vars

\* the lifecycle methods called one by one; like createAllAgents, each
\* agent is deployed once
createClockAgent ==
    /\ ~clock
    /\ CommitAgents("createClockAgent", None, DoCreateClockAgent(AgentState))

createPhysicAgent ==
    /\ ~phy
    /\ CommitAgents("createPhysicAgent", None, DoCreatePhysicAgent(AgentState))

createGraphicAgent ==
    /\ ~graph
    /\ CommitAgents("createGraphicAgent", None, DoCreateGraphicAgent(AgentState))

createAndConnectGraphicAgent ==
    /\ ~graph
    /\ CommitAgents("createAndConnectGraphicAgent", None,
                    DoCreateAndConnectGraphicAgent(AgentState))

connectClockToPhysic ==
    CommitAgents("connectClockToPhysic", None, DoConnectClockToPhysic(AgentState))

connectGraphToPhysic ==
    CommitAgents("connectGraphToPhysic", None, DoConnectGraphToPhysic(AgentState))

disconnectGraphFromPhysic ==
    CommitAgents("disconnectGraphFromPhysic", None, DoDisconnectGraphFromPhysic(AgentState))

startAgents ==
    CommitAgents("startAgents", None, DoStartAgents(AgentState))

stopAgents ==
    CommitAgents("stopAgents", None, DoStopAgents(AgentState))

\* the lifecycle of the agents, in any order of calls
NextAgents ==
    \/ \E g \in BOOLEAN : createAllAgents(g)
    \/ createClockAgent
    \/ createPhysicAgent
    \/ createGraphicAgent
    \/ createAndConnectGraphicAgent
    \/ connectClockToPhysic
    \/ connectGraphToPhysic
    \/ disconnectGraphFromPhysic
    \/ startAgents
    \/ stopAgents

SpecAgents == Init /\ [][NextAgents]_vars

----------------------------------------------------------------------------
(* Reading the record of the last operation *)

\* the calls of the log whose name is one of names, in the order issued
RECURSIVE Calls(_, _)
Calls(log, names) ==
    IF log = <<>> THEN <<>>
    ELSE (IF Head(log).call \in names THEN <<Head(log)>> ELSE <<>>)
         \o Calls(Tail(log), names)

Args(entries) == [i \in 1..Len(entries) |-> entries[i].arg]

\* the positions of the calls named name with argument arg
Positions(log, name, arg) ==
    {i \in 1..Len(log) : log[i].call = name /\ log[i].arg = arg}

RemoveOps == {"removeWorldFromPhysic", "removeWorldFromGraphic", "removeWorld"}

----------------------------------------------------------------------------
(* C1, C2: the contact-material list around addWorldToPhysic *)

\* C1: after addWorldToPhysic(W) returns, W's contact-material list is the
\* list it was before the call, whatever the scene already held.
C1_MaterialsRestored ==
    (last.op = "addWorldToPhysic" /\ last.raised = NoError)
        => wmat[last.w] = last.pre.wm

\* C2: the list handed to the physics builder by addWorldToPhysic holds no
\* name the destination scene already holds.
C2_HandedListExcludesSceneMaterials ==
    (last.op = "addWorldToPhysic" /\ Positions(last.log, "phy.deserializeWorld", last.w) # {})
        => Range(last.handed) \cap last.pre.mats = {}

----------------------------------------------------------------------------
(* C3: add then remove on the physics side *)

\* the names World w declares are not in use in the state pre
NamesDisjoint(w, pre) ==
    /\ WorldComps(w) \cap pre.comps = {}
    /\ Range(RigidBodyNames(w)) \cap pre.bodies = {}

\* C3: addWorldToPhysic(W) directly followed by removeWorldFromPhysic(W),
\* from a backend that uses none of W's names, completes and leaves the
\* component registry as it was before the add.
C3_AddRemoveRestoresRegistry ==
    (rt.add = "addWorldToPhysic" /\ NamesDisjoint(rt.w, rt.pre))
        => (last.raised = NoError /\ comps = rt.pre.comps)

\* C3 happens: World w1 (a tree and a mechanism) added to and removed from
\* a backend that holds World w3
C3_Witness ==
    /\ rt.add = "addWorldToPhysic"
    /\ rt.w = "w1"
    /\ NamesDisjoint(rt.w, rt.pre)
    /\ rt.pre.comps = {"box1", "box1.comp"}
    /\ "A.comp" \in last.pre.comps
    /\ comps = rt.pre.comps

----------------------------------------------------------------------------
(* C4: removal is post-order *)

\* a node after its children, the children in declaration order
RECURSIVE PostOrder(_)
PostOrder(n) ==
    ConcatAll([i \in 1..Len(Children(n)) |-> PostOrder(Children(n)[i])]) \o <<n>>

RECURSIVE GPostOrder(_)
GPostOrder(g) ==
    ConcatAll([i \in 1..Len(GChildren(g)) |-> GPostOrder(GChildren(g)[i])]) \o <<g>>

PostOrderOfWorld(w) == ConcatAll([i \in 1..Len(Roots(w)) |-> PostOrder(Roots(w)[i])])

IndexIn(order, x) == CHOOSE i \in 1..Len(order) : order[i] = x

\* the sequence ns never steps back in the order
FollowsOrder(ns, order) ==
    /\ Range(ns) \subseteq Range(order)
    /\ \A i, j \in 1..Len(ns) : i < j => IndexIn(order, ns[i]) <= IndexIn(order, ns[j])

\* the physical node a deleted name belongs to: the body, its auxiliary
\* component or its inner joint
NodeOfName(w, name) ==
    CHOOSE n \in Range(RigidBodyNames(w)) : name \in {n, n \o ".comp", JointName(n)}

\* the nodes the physics backend sees deleted, call by call
PhysicDeletionNodes(w, log) ==
    LET es == SelectSeq(Calls(log, {"removeRigidBody", "deleteComponent"}),
                        LAMBDA e : e.arg \notin Range(Mechanisms(w)))
    IN  [i \in 1..Len(es) |-> NodeOfName(w, es[i].arg)]

\* C4: in removeWorldFromPhysic and removeWorldFromGraphic every backend
\* removal for a node comes after all removals for its descendants, and
\* children are taken in declaration order: A(children=[B, C]) gives B, C, A.
C4_RemovalIsPostOrder ==
    (last.op \in RemoveOps) =>
        /\ FollowsOrder(PhysicDeletionNodes(last.w, last.log), PostOrderOfWorld(last.w))
        /\ FollowsOrder(Args(Calls(last.log, {"removeNode"})), GPostOrder(GRoot(last.w)))
        /\ FollowsOrder(Args(Calls(last.log, {"removeAllInteractionsInvolving",
                                              "ocb.removeBody"})),
                        PostOrderOfWorld(last.w))

\* C4 happens: removeWorld of the tree A(children=[B, C]) with all of it
\* present in both backends
C4_Witness ==
    /\ last.op = "removeWorld"
    /\ last.w = "w1"
    /\ Args(Calls(last.log, {"removeRigidBody"})) = <<"B", "C", "A">>
    /\ Args(Calls(last.log, {"removeNode"})) = <<"gB", "gA", "gC", "g1">>
    /\ Args(Calls(last.log, {"ocb.removeBody"})) = <<"B", "C", "A">>

----------------------------------------------------------------------------
(* C5: the three steps of a node's removal in removeWorld *)

\* C5: in removeWorld(W), for every node of W's physical scene, the node's
\* interactions are removed, then its body is unregistered from the
\* body-state connector, then its rigid body is deleted from the physics
\* backend - with or without a graphics agent.
C5_ThreeStepsForEveryNode ==
    (/\ last.op = "removeWorld"
     /\ last.raised = NoError
     /\ Range(RigidBodyNames(last.w)) \subseteq last.pre.bodies)
        => \A n \in Range(RigidBodyNames(last.w)) :
              \E i \in Positions(last.log, "removeAllInteractionsInvolving", n),
                 j \in Positions(last.log, "ocb.removeBody", n),
                 k \in Positions(last.log, "removeRigidBody", n) :
                    i < j /\ j < k

----------------------------------------------------------------------------
(* C6, C7: the order of the two backends in addWorld and removeWorld *)

PhysicAddCalls == {"phy.deserializeWorld"}

GraphicAddCalls == {"graph.deserializeWorld", "ocb.addBody"}

PhysicRemoveCalls == {"deleteComponent", "removeRigidBody", "removeUnusedContactMaterials"}

GraphicRemoveCalls ==
    {"removeAllInteractionsInvolving", "ocb.removeBody", "removeNode", "removeMarker"}

\* every call of the first kind is issued before every call of the second
AllBefore(log, first, second) ==
    \A i, j \in 1..Len(log) :
        (log[i].call \in first /\ log[j].call \in second) => i < j

\* C6: addWorld does the physics side first: every graphics-side call
\* follows the physics builder, and each body registered on the body-state
\* connector is in the physics body list when it is registered.
C6_AddWorldPhysicFirst ==
    (last.op = "addWorld") =>
        /\ AllBefore(last.log, PhysicAddCalls, GraphicAddCalls)
        /\ \A i \in 1..Len(last.log) :
              last.log[i].call = "ocb.addBody" => last.log[i].present

\* C6 happens: addWorld registers the bodies of a World that was not in
\* the physics backend before
C6_Witness ==
    /\ last.op = "addWorld"
    /\ last.w = "w1"
    /\ last.pre.bodies = {}
    /\ Args(Calls(last.log, {"ocb.addBody"})) = <<"A", "B", "C">>

\* C7: removeWorld does the graphics side first: nothing is deleted from
\* the physics backend before the last graphics-side removal is issued.
C7_RemoveWorldGraphicFirst ==
    (last.op = "removeWorld") =>
        AllBefore(last.log, GraphicRemoveCalls, PhysicRemoveCalls)

\* C7 happens: a removeWorld that removes graphical nodes, a marker and a
\* connector registration, and deletes physics components
C7_Witness ==
    /\ last.op = "removeWorld"
    /\ Calls(last.log, {"removeNode"}) # <<>>
    /\ Calls(last.log, {"removeMarker"}) # <<>>
    /\ Calls(last.log, {"ocb.removeBody"}) # <<>>
    /\ Calls(last.log, {"deleteComponent"}) # <<>>
    /\ Calls(last.log, {"removeRigidBody"}) # <<>>

----------------------------------------------------------------------------
(* C8: the end-to-end scenario without a graphics agent *)

\* C8: clock and physics agent only; addWorld of a World with one body and
\* no mechanism puts the body in the physics body list, and the removeWorld
\* that follows completes and leaves no body and no contact material.
C8_OneBodyScenario ==
    (/\ rt.add = "addWorld"
     /\ clock /\ phy /\ ~graph
     /\ Len(RigidBodyNames(rt.w)) = 1
     /\ Mechanisms(rt.w) = <<>>
     /\ rt.pre.bodies = {} /\ rt.pre.mats = {})
        => /\ Range(RigidBodyNames(rt.w)) \subseteq last.pre.bodies
           /\ last.raised = NoError
           /\ bodies = {}
           /\ mats = {}

\* C8 happens: World w3 (body "box1", material "m1") added and removed
C8_Witness ==
    /\ rt.add = "addWorld" /\ rt.w = "w3"
    /\ clock /\ phy /\ ~graph
    /\ rt.pre.bodies = {} /\ rt.pre.mats = {}
    /\ last.pre.bodies = {"box1"}
    /\ last.pre.mats = {"m1"}
    /\ last.raised = NoError
    /\ bodies = {} /\ mats = {}

----------------------------------------------------------------------------
(* C9, C10: marker records of a World *)

\* the names a marker_name_list argument stands for
NamesOf(x) == IF x.kind = "str" THEN <<x.str>> ELSE x.items

\* C9: addFreeMarkers(world, names) appends one marker record per name, in
\* order, and keeps the records that were there; a single name n and the
\* list [n] give the same list.
C9_AddFreeMarkersAppends ==
    (last.op = "addFreeMarkers") =>
        wmarkers[last.w] = last.pre.mk \o NamesOf(last.arg)

\* C9 happens: a single name appended to a World that has markers
C9_Witness ==
    /\ last.op = "addFreeMarkers"
    /\ last.arg = Str("f1")
    /\ last.pre.mk = <<"f2", "f1">>
    /\ wmarkers[last.w] = <<"f2", "f1", "f1">>

\* the rigid-body names of the trees of the model, written out
BodyNamesInDeclarationOrder(w) ==
    CASE w = "w1" -> <<"A", "B", "C">>
      [] w = "w2" -> <<"box1", "E">>
      [] w = "w3" -> <<"box1">>

\* C10: with a graphics agent and none of the World's body names among the
\* backend's marker labels, addMarkers(world) adds one marker record per
\* rigid body of the World, every root node's tree depth first, each name
\* once and in declaration order.
C10_AddMarkersAllBodies ==
    (/\ last.op = "addMarkers"
     /\ last.arg = None
     /\ graph
     /\ Range(RigidBodyNames(last.w)) \cap last.pre.gmarkers = {})
        => wmarkers[last.w] = last.pre.mk \o BodyNamesInDeclarationOrder(last.w)

\* C10 happens: the two root nodes of w2, while another name has a marker
\* in the backend
C10_Witness ==
    /\ last.op = "addMarkers"
    /\ last.arg = None
    /\ last.w = "w2"
    /\ graph
    /\ last.pre.gmarkers = {"A"}
    /\ last.pre.mk = <<"f1">>
    /\ wmarkers["w2"] = <<"f1", "box1", "E">>

----------------------------------------------------------------------------
(* C11, C12: markers asked for or hidden that are already there or gone *)

\* the names an addMarkers / removeMarkers call is about
Targets(w, arg) ==
    IF arg.kind = "none" THEN BodyNamesInDeclarationOrder(w) ELSE NamesOf(arg)

\* how many records of the list carry the name
Count(names, n) == Cardinality({i \in 1..Len(names) : names[i] = n})

\* C11: removeMarkers for a name without marker in the graphics backend and
\* addMarkers for a name with one do not raise, issue no backend call for
\* that name and add no record for it; when every name of the call is such
\* a name, nothing is called and the World's marker list and the backend's
\* marker registry are as before.
C11_NoOpOnSatisfiedNames ==
    /\ (last.op = "removeMarkers") =>
          /\ last.raised = NoError
          /\ wmarkers[last.w] = last.pre.mk
          /\ \A n \in Range(Targets(last.w, last.arg)) \ last.pre.gmarkers :
                /\ Positions(last.log, "removeMarker", n) = {}
                /\ n \notin gmarkers
          /\ (Range(Targets(last.w, last.arg)) \cap last.pre.gmarkers = {})
                => (last.log = <<>> /\ gmarkers = last.pre.gmarkers)
    /\ (last.op = "addMarkers") =>
          /\ last.raised = NoError
          /\ gmarkers = last.pre.gmarkers
          /\ \A n \in Range(Targets(last.w, last.arg)) \cap last.pre.gmarkers :
                /\ Positions(last.log, "addMarker", n) = {}
                /\ Count(wmarkers[last.w], n) = Count(last.pre.mk, n)
          /\ (Range(Targets(last.w, last.arg)) \subseteq last.pre.gmarkers)
                => (last.log = <<>> /\ wmarkers[last.w] = last.pre.mk)

\* C11 happens: removeMarkers on the bodies of w2 when only "box1" has a
\* marker in the backend, after an addMarkers on w2 that found "box1" there
\* and added a record for "E" alone
C11_Witness ==
    /\ graph
    /\ last.op = "removeMarkers"
    /\ last.w = "w2"
    /\ last.arg = None
    /\ last.pre.gmarkers = {"box1"}
    /\ wmarkers["w2"] = <<"E">>
    /\ Args(Calls(last.log, {"removeMarker"})) = <<"box1">>
    /\ gmarkers = {}

\* C12: addMarkers(world, names) called twice in a row leaves the World's
\* marker list and the backend's marker registry as one call leaves them,
\* in any state; the same for removeMarkers(world, names).
C12_MarkersIdempotent ==
    (twice /\ last.op \in {"addMarkers", "removeMarkers"})
        => (wmarkers[last.w] = last.pre.mk /\ gmarkers = last.pre.gmarkers)

----------------------------------------------------------------------------
(* C13: the order of cleanPhy *)

DynamicKinds == {"Robot", "RigidBody", "Composite"}

\* the components of the dynamic kinds are deleted before all others
DynamicKindsFirst(log) ==
    \A i, j \in 1..Len(log) :
        (/\ log[i].call = "deleteComponent" /\ Kind(log[i].arg) \in DynamicKinds
         /\ log[j].call = "deleteComponent" /\ Kind(log[j].arg) \notin DynamicKinds)
            => i < j

\* C13 as stated: cleanPhy deletes every component of kind Robot, RigidBody
\* or Composite, then every remaining component, and only then clears the
\* main scene; afterwards the registry is empty and the agent still exists.
C13_CleanPhyDeletesThenClears ==
    (last.op = "cleanPhy" /\ phy) =>
        /\ DynamicKindsFirst(last.log)
        /\ Positions(last.log, "ms.clean", "") # {}
        /\ AllBefore(last.log, {"deleteComponent"}, {"ms.clean"})
        /\ comps = {}

\* C13 as amended: cleanPhy clears the main scene first, then deletes every
\* component of kind Robot, RigidBody or Composite, then every remaining
\* component, each once; afterwards the registry is empty and the agent
\* still exists.
C13_CleanPhyClearsThenDeletes ==
    (last.op = "cleanPhy" /\ phy) =>
        /\ last.raised = NoError
        /\ Positions(last.log, "ms.clean", "") = {1}
        /\ AllBefore(last.log, {"ms.clean"}, {"deleteComponent"})
        /\ DynamicKindsFirst(last.log)
        /\ Range(Args(Calls(last.log, {"deleteComponent"}))) = last.pre.comps
        /\ Len(last.log) = 1 + Cardinality(last.pre.comps)
        /\ comps = {}
        /\ bodies = {}

\* C13 happens: cleanPhy on a backend that holds World w1: a mechanism,
\* three bodies with their auxiliary components, and their joints
C13_Witness ==
    /\ last.op = "cleanPhy"
    /\ phy
    /\ last.pre.comps = WorldComps("w1")
    /\ {Kind(c) : c \in last.pre.comps} = DynamicKinds \cup {"Joint"}
    /\ last.log[1].call = "ms.clean"
    /\ Len(last.log) = 11
    /\ comps = {}

----------------------------------------------------------------------------
(* C14: what startAgents and stopAgents start and stop *)

\* C14: startAgents and stopAgents change the running state of the clock
\* and physics agents only: the graphics agent and the marker-position
\* agent run or not as before, no connection changes, and nothing is
\* called on, and nothing fails for, an agent that has not been created.
C14_StartStopOnlyClockAndPhysic ==
    (last.op \in {"startAgents", "stopAgents"}) =>
        /\ last.raised = NoError
        /\ running \cap {"graph", "markers"} = last.pre.running \cap {"graph", "markers"}
        /\ wired = last.pre.wired
        /\ \A i \in 1..Len(last.log) : last.log[i].arg \in {"clock", "phy"}
        /\ clock => ("clock" \in running <=> last.op = "startAgents")
        /\ phy => ("phy" \in running <=> last.op = "startAgents")
        /\ ~clock => (/\ "clock" \notin running
                      /\ \A i \in 1..Len(last.log) : last.log[i].arg # "clock")
        /\ ~phy => (/\ "phy" \notin running
                    /\ \A i \in 1..Len(last.log) : last.log[i].arg # "phy")

\* C14 happens: stopAgents with all four agents running
C14_Witness ==
    /\ last.op = "stopAgents"
    /\ graph /\ markers
    /\ last.pre.running = {"clock", "phy", "graph", "markers"}
    /\ running = {"graph", "markers"}

----------------------------------------------------------------------------
(* C15: the steps of createAllAgents *)

\* the calls of a log as <<name, argument>>
Steps(log) == [i \in 1..Len(log) |-> <<log[i].call, log[i].arg>>]

ClockAndPhysicSteps ==
    << <<"createClock", "clock">>,
       <<"createAgent", "phy">>,
       <<"createGVMScene", "main">>,
       <<"createXCDScene", "xcd">>,
       <<"newConnector", "ocb">>,
       <<"newConnector", "occ">>,
       <<"addCreateInputPort", "clock_trigger">>,
       <<"newConnector", "icsync">>,
       <<"addEvent", "clock_trigger">>,
       <<"connectTo", "clock.ticks">> >>

GraphicSteps ==
    << <<"createAgent", "graph">>,
       <<"newConnector", "icb">>,
       <<"newConnector", "icf">>,
       <<"newConnector", "icc">>,
       <<"start", "graph">>,
       <<"MarkerManager", "markers">>,
       <<"connectTo", "graph.framePosition">>,
       <<"start", "markers">>,
       <<"connectTo", "graph.body_state_H">>,
       <<"connectTo", "graph.contacts">> >>

\* C15: createAllAgents creates the clock, creates the physics agent (its
\* scenes, the clock_trigger input port, the synchro connector), connects
\* the clock ticks to the physics trigger, and then, only when
\* create_graphic is true, creates the graphics agent (starting its
\* marker-position agent) and connects physics to graphics; with
\* create_graphic false no graphics agent exists and no graphics
\* connection is made.
C15_CreateAllAgentsOrder ==
    (last.op = "createAllAgents") =>
        /\ last.raised = NoError
        /\ clock /\ phy /\ ClockToPhysic \in wired
        /\ (last.arg = Bool(TRUE)) =>
              /\ Steps(last.log) = ClockAndPhysicSteps \o GraphicSteps
              /\ graph /\ markers
              /\ {"graph", "markers"} \subseteq running
              /\ wired = {ClockToPhysic, FrameToMarkers, BodyStateToGraph, ContactsToGraph}
        /\ (last.arg = Bool(FALSE)) =>
              /\ Steps(last.log) = ClockAndPhysicSteps
              /\ ~graph /\ ~markers
              /\ wired = {ClockToPhysic}

\* C15 happens: createAllAgents with create_graphic true
C15_Witness ==
    /\ last.op = "createAllAgents"
    /\ last.arg = Bool(TRUE)
    /\ Len(last.log) = 20
    /\ graph /\ markers
    /\ running = {"graph", "markers"}

----------------------------------------------------------------------------
(* C16: the graphics-side methods without graphics agent *)

GraphicOnlyOps ==
    {"addWorldToGraphic", "removeWorldFromGraphic", "cleanGraph", "addMarkers",
     "removeMarkers", "addMarkerToSimulation", "removeMarkerFromSimulation"}

\* C16: without graphics agent, addWorldToGraphic, removeWorldFromGraphic,
\* cleanGraph, addMarkers, removeMarkers, addMarkerToSimulation and
\* removeMarkerFromSimulation return without raising, call no backend, and
\* leave the World object and the physics side (component registry, bodies,
\* contact materials, body-state connector) as they were.
C16_NoGraphicAgentNoEffect ==
    (~graph /\ last.op \in GraphicOnlyOps) =>
        /\ last.raised = NoError
        /\ last.log = <<>>
        /\ comps = last.pre.comps
        /\ bodies = last.pre.bodies
        /\ mats = last.pre.mats
        /\ ocb = last.pre.ocb
        /\ gnodes = last.pre.gnodes
        /\ gmarkers = last.pre.gmarkers
        /\ (last.w \in Worlds) =>
              (wmat[last.w] = last.pre.wm /\ wmarkers[last.w] = last.pre.mk)

\* C16 happens: addMarkers on a World that is in the physics backend while
\* there is a physics agent and no graphics agent
C16_Witness ==
    /\ ~graph /\ phy
    /\ last.op = "addMarkers"
    /\ last.w = "w1"
    /\ last.arg = None
    /\ {"A", "B", "C"} \subseteq bodies
    /\ wmarkers["w1"] = <<"f1">>

----------------------------------------------------------------------------
(* C17: the lifecycle of the agents *)

\* self.<name> is not None
Created(name) ==
    CASE name = "clock"   -> clock
      [] name = "phy"     -> phy
      [] name = "graph"   -> graph
      [] name = "markers" -> markers

\* C17 as stated: whatever the order in which the lifecycle methods are
\* called, the clock or the physics agent is running only if the clock
\* ticks have been connected to the physics trigger.
C17_RunningOnlyIfWired ==
    (running \cap {"clock", "phy"} # {}) => ClockToPhysic \in wired

\* C17 as amended: whatever the order in which the lifecycle methods are
\* called, an agent is running only if it has been created, the clock
\* ticks are connected to the physics trigger only if both agents have been
\* created (connectClockToPhysic fails otherwise and connects nothing), and
\* createAllAgents leaves clock and physics created, wired and not started;
\* startAgents starts the clock and physics agents that exist, wired or not.
C17_LifecycleAsEnforced ==
    /\ \A a \in running : Created(a)
    /\ ClockToPhysic \in wired => (clock /\ phy)
    /\ (last.op = "connectClockToPhysic") =>
          IF last.raised = NoError
          THEN clock /\ phy /\ wired = last.pre.wired \cup {ClockToPhysic}
          ELSE (~clock \/ ~phy) /\ wired = last.pre.wired
    /\ (last.op = "createAllAgents") =>
          (ClockToPhysic \in wired /\ running \cap {"clock", "phy"} = {})
    /\ (last.op = "startAgents") =>
          running \cap {"clock", "phy"} = {a \in {"clock", "phy"} : Created(a)}

\* C17 happens: clock and physics created and wired, and then started
C17_Witness ==
    /\ last.op = "startAgents"
    /\ ~graph
    /\ wired = {ClockToPhysic}
    /\ last.pre.running = {}
    /\ running = {"clock", "phy"}

----------------------------------------------------------------------------
(* C18, C19: deletions and what is there to delete *)

\* the calls that delete something from a backend
DeletionCalls == {"deleteComponent", "removeRigidBody", "removeNode", "removeMarker"}

\* C18: a second removeWorldFromPhysic(W) right after a first one finds the
\* World removed: it issues no deletion for a component that is absent and
\* it does not fail, whether or not W declares mechanisms.
C18_SecondRemoveIsSatisfied ==
    (twice /\ last.op = "removeWorldFromPhysic") =>
        /\ last.raised = NoError
        /\ \A i \in 1..Len(last.log) :
              last.log[i].call \in DeletionCalls => last.log[i].present

\* C19: every per-node deletion is issued for something the backend holds
\* at that moment: removeRigidBody for a body of the body list,
\* deleteComponent for a body name, its ".comp" or its inner joint that is
\* in the component registry, removeNode for a node of the graphical scene,
\* removeMarker for a label of the marker registry.
C19_PerNodeDeletionsGuarded ==
    (last.op \in RemoveOps) =>
        \A i \in 1..Len(last.log) :
            (/\ last.log[i].call \in DeletionCalls
             /\ ~(/\ last.log[i].call = "deleteComponent"
                  /\ last.log[i].arg \in Range(Mechanisms(last.w))))
                => last.log[i].present

\* C19 happens: removeWorldFromPhysic of w2 after its body "box1" has gone
\* with World w3: the body, its component and its joint are passed over
C19_Witness ==
    /\ last.op = "removeWorldFromPhysic"
    /\ last.w = "w2"
    /\ last.raised = NoError
    /\ "box1" \notin last.pre.bodies
    /\ "box1.comp" \notin last.pre.comps
    /\ {"E", "E.comp", "E.joint"} \subseteq last.pre.comps
    /\ Args(Calls(last.log, {"removeRigidBody"})) = <<"E">>
    /\ Args(Calls(last.log, {"deleteComponent"})) = <<"E", "E.comp", "E.joint">>

----------------------------------------------------------------------------
(* C20: the body-state connector and the body list *)

\* C20: with a graphics agent, after any sequence of addWorld and
\* removeWorld, every body registered on the body-state output connector
\* is a body of the physics backend's body list.
C20_ConnectorBodiesExist ==
    graph => ocb \subseteq bodies

----------------------------------------------------------------------------
(* C21: a deletion that fails partway through removeWorldFromPhysic *)

\* the arguments of the calls of one name that returned
Done(log, name) ==
    {log[i].arg : i \in {j \in 1..Len(log) : log[j].call = name /\ log[j].ok}}

\* C21: a backend deletion that fails in removeWorldFromPhysic ends the
\* method with the failure: the failing call is the last one issued (later
\* siblings and the purge of unused materials are skipped), the deletions
\* that returned before it stay in effect and nothing else has changed, and
\* no backend call is issued twice.
C21_FailureStopsRemoval ==
    last.op = "removeWorldFromPhysic" =>
        /\ \A i \in 1..Len(last.log) :
              ~last.log[i].ok => (i = Len(last.log) /\ last.raised = "BackendError")
        /\ comps = last.pre.comps \ Done(last.log, "deleteComponent")
        /\ bodies = last.pre.bodies \ Done(last.log, "removeRigidBody")
        /\ last.raised # NoError =>
              /\ mats = last.pre.mats
              /\ Done(last.log, "removeUnusedContactMaterials") = {}
        /\ IsInjective(Steps(last.log))

\* the removal of w1, all of it present, failed after body B and its
\* components were deleted: the sibling C and the parent A are still there
C21_Witness ==
    /\ last.op = "removeWorldFromPhysic" /\ last.w = "w1"
    /\ last.raised = "BackendError"
    /\ {"A", "B", "C"} \subseteq last.pre.bodies
    /\ "B" \notin bodies /\ "B" \notin comps /\ "R1" \notin comps
    /\ {"A", "C"} \subseteq bodies
    /\ Len(last.log) > 4
    /\ ~last.log[Len(last.log)].ok /\ last.log[Len(last.log)].present

----------------------------------------------------------------------------
(* C22: removeWorldFromPhysic calls on two threads *)

\* thread t has issued the per-node deleteComponent(name), its existence
\* test having passed, and the component was there (or not) at the call
Issued(t, name, present) ==
    \E i \in 1..Len(threads.of[t].issued) :
        threads.of[t].issued[i] = [arg |-> name, present |-> present]

\* C22: when the caller serializes its removeWorldFromPhysic calls, every
\* per-node deleteComponent is issued for a component that is in the
\* registry at the call; the layer itself takes no lock, and calls that
\* interleave reach the state of C22_Race.
C22_SerializedCallsFindTheirComponents ==
    threads.serialized =>
        \A t \in Threads : \A i \in 1..Len(threads.of[t].issued) :
            threads.of[t].issued[i].present

\* two calls on Worlds that share the component "box1", not serialized: both
\* passed the existence test for it, one deleted it, and the other issued
\* deleteComponent for the component already deleted
C22_Race ==
    /\ ~threads.serialized
    /\ \E t, u \in Threads :
          /\ t # u
          /\ threads.of[t].w # threads.of[u].w
          /\ Issued(t, "box1", TRUE)
          /\ Issued(u, "box1", FALSE)

----------------------------------------------------------------------------
(* C23: what removeWorldFromPhysic leaves alone *)

\* the component names World w names: its mechanisms, its rigid bodies, each
\* body name + ".comp", and the inner joints of its nodes
NamedBy(w) ==
    Range(Mechanisms(w))
    \cup Range(RigidBodyNames(w))
    \cup {b \o ".comp" : b \in Range(RigidBodyNames(w))}
    \cup {JointName(b) : b \in Range(RigidBodyNames(w))}

\* C23: removeWorldFromPhysic(W) leaves every component whose name W does not
\* name as it was - in the registry after the call exactly if it was before -
\* and leaves the World object W (its contact-material list, its marker
\* list) as it was.
C23_OnlyNamedComponentsDeleted ==
    last.op = "removeWorldFromPhysic" =>
        /\ comps \ NamedBy(last.w) = last.pre.comps \ NamedBy(last.w)
        /\ wmat[last.w] = last.pre.wm
        /\ wmarkers[last.w] = last.pre.mk

\* a World was removed from a registry that also holds components of
\* another World: some of its own are gone, the others are all still there
C23_Witness ==
    /\ last.op = "removeWorldFromPhysic" /\ last.raised = NoError
    /\ comps # last.pre.comps
    /\ comps \ NamedBy(last.w) # {}
    /\ last.pre.comps \cap NamedBy(last.w) # {}

----------------------------------------------------------------------------
(* C24: removeWorldFromGraphic on a World without physical nodes *)

\* C24: with a graphics agent, removeWorldFromGraphic(W) on a World whose
\* physical scene has no nodes returns without error, and none of W's
\* markers is left in the graphics backend.
C24_NodelessWorldRemoved ==
    (last.op = "removeWorldFromGraphic" /\ graph /\ Len(Roots(last.w)) = 0) =>
        /\ last.raised = NoError
        /\ Range(last.pre.mk) \cap gmarkers = {}

----------------------------------------------------------------------------
(* C25: disconnectGraphFromPhysic, then connectGraphToPhysic *)

\* the connections createAndConnectGraphicAgent leaves the graphics agent with
GraphicConnections == {BodyStateToGraph, ContactsToGraph, FrameToMarkers}

\* C25: when disconnectGraphFromPhysic, called with the connections of
\* createAndConnectGraphicAgent in place, is directly followed by
\* connectGraphToPhysic, these connections hold again: body_state_H and
\* contacts to the physics agent, framePosition to the marker agent.
C25_ReconnectRestoresConnections ==
    (/\ rt.add = "disconnectGraphFromPhysic"
     /\ last.raised = NoError
     /\ GraphicConnections \subseteq rt.pre.wired)
        => GraphicConnections \subseteq wired

----------------------------------------------------------------------------
(* C26: addWorld, then removeWorld, seen from the graphics backend *)

GraphicNamesFresh(w, pre) ==
    /\ GNodeNames(w) \cap pre.gnodes = {}
    /\ Range(pre.mk) \cap pre.gmarkers = {}

====
